---- MODULE Spec2Model ----
\* Customer-journey workflow engine: the in-memory customer registry, the
\* inactivity timers, the Kafka-backed event service and the handlers of
\* src/src/services/workflowEngine.ts, with the API entry points of
\* src/src/services/customerService.ts that feed it.
EXTENDS Integers, Sequences, FiniteSets, TLC

\* ---------------------------------------------------------------- bounds
IdSeq == <<"c1", "c2">>      \* customer ids (uuid values), in the order handed out
Ids == {IdSeq[i] : i \in 1..Len(IdSeq)}
Products == {"P1", "P2"}     \* product ids a visit can carry
MaxEvents == 3               \* API requests accepted (signup, visit, simulate-time)
                             \* plus broker faults (a message delivered a second
                             \* time, a producer.send that rejects)

\* ------------------------------------------------------- static catalog
STEP_1_WELCOME == 1
STEP_2_DISCOUNT == 2
STEP_3_REMINDER == 3
StepIds == {STEP_1_WELCOME, STEP_2_DISCOUNT, STEP_3_REMINDER}

CUSTOMER_EVENTS == "customer-events"
WORKFLOW_TRIGGERS == "workflow-triggers"
\* topics the engine subscribes to in initialize()
SubscribedTopics == {CUSTOMER_EVENTS, WORKFLOW_TRIGGERS}

NoVisit == "none"

\* the environment may still act
BudgetLeft(r, f) == r + f < MaxEvents

VARIABLES
  phase,        \* "boot" | "running" | "degraded" | "stopped" (startServer / SIGINT)
  isConnected,  \* eventService.isConnected
  customers,    \* Map<string, Customer>: function on the ids present
  timers,       \* Map<string, Timeout>: id -> handle, on the ids present
  pending,      \* timeouts armed in the runtime, not fired and not cleared
  timerSeq,     \* handles handed out so far (setTimeout return values)
  queue,        \* queue[topic][key]: messages of one key, in publish order
  handlers,     \* handleEvent activations suspended at an await
  dispatched,   \* dispatched[id][step]: emails delivered by the email service
  emailSent,    \* emailSent[id][step]: email-sent events published
  fired,        \* timeouts whose callback has run
  submitted,    \* ids whose signup publish has returned to createCustomer
  requests,     \* API requests served so far
  faults,       \* broker faults so far
  response      \* the last response a controller has sent (res.status().json())

vars == <<phase, isConnected, customers, timers, pending, timerSeq, queue,
          handlers, dispatched, emailSent, fired, submitted, requests, faults,
          response>>

Budget == BudgetLeft(requests, faults)

\* ------------------------------------------------------------- Customer
\* models/customer.ts constructor, for data without a workflowState
InitialWorkflowState ==
  [currentStep |-> 0, completedSteps |-> <<>>, welcomeEmailSent |-> FALSE,
   discountCodeSent |-> FALSE, reminderSent |-> FALSE, lastEmailSent |-> 0]

SeqToSet(s) == {s[i] : i \in 1..Len(s)}

Max(a, b) == IF a >= b THEN a ELSE b

\* new Customer(data): data.workflowState || the initial state
NewCustomer(ws, visit) ==
  [workflowState |-> ws, lastProductVisit |-> visit, lastActivity |-> "signup"]

IsStepCompleted(cust, stepNumber) ==
  stepNumber \in SeqToSet(cust.workflowState.completedSteps)

\* markStepCompleted without the includes() test
MarkStepCompletedNoCheck(ws, stepNumber) ==
  [ws EXCEPT
     !.completedSteps = Append(@, stepNumber),
     !.currentStep = Max(@, stepNumber + 1)]

\* markStepCompleted without Math.max
MarkStepCompletedNoMax(ws, stepNumber) ==
  [ws EXCEPT
     !.completedSteps = IF stepNumber \in SeqToSet(@) THEN @ ELSE Append(@, stepNumber),
     !.currentStep = stepNumber + 1]

MarkStepCompleted(ws, stepNumber) ==
  [ws EXCEPT
     !.completedSteps = IF stepNumber \in SeqToSet(@) THEN @ ELSE Append(@, stepNumber),
     !.currentStep = Max(@, stepNumber + 1)]

\* updateWorkflowState({lastEmailSent: now}), the flag of the step left out
UpdateWorkflowStateNoFlag(ws, stepId, now) ==
  [ws EXCEPT !.lastEmailSent = now]

\* updateWorkflowState({<flag of the step>: true, lastEmailSent: now})
UpdateWorkflowState(ws, stepId, now) ==
  [ws EXCEPT
     !.welcomeEmailSent = IF stepId = STEP_1_WELCOME THEN TRUE ELSE @,
     !.discountCodeSent = IF stepId = STEP_2_DISCOUNT THEN TRUE ELSE @,
     !.reminderSent = IF stepId = STEP_3_REMINDER THEN TRUE ELSE @,
     !.lastEmailSent = now]

\* Map.set
MapSet(m, k, v) == [x \in DOMAIN m \cup {k} |-> IF x = k THEN v ELSE m[x]]
\* Map.delete
MapDelete(m, k) == [x \in DOMAIN m \ {k} |-> m[x]]

\* ---------------------------------------------------------------- events
CUSTOMER_SIGNUP == "CUSTOMER_SIGNUP"
PRODUCT_PAGE_VISIT == "PRODUCT_PAGE_VISIT"
CUSTOMER_INACTIVE == "CUSTOMER_INACTIVE"
WORKFLOW_STEP == "WORKFLOW_STEP"

\* customer.toJSON() of a customer that is not there (signup data carries none)
NoSnapshot == NewCustomer(InitialWorkflowState, NoVisit)

\* event.id = uuidv4() of the signup event of a customer (the only events
\* whose id matters: see MessageKey)
EventIdSeq == <<"e1", "e2">>
EventId(c) == EventIdSeq[CHOOSE i \in 1..Len(IdSeq) : IdSeq[i] = c]

\* key: data.customerId || event.id. The data of a signup event is the
\* CustomerData (id, name, email, ...), which has no customerId field; the
\* data of every other event carries customerId.
MessageKey(type, c) ==
  LET hasCustomerId == type # CUSTOMER_SIGNUP
  IN IF hasCustomerId THEN c ELSE EventId(c)

Keys == Ids \cup {EventId(c) : c \in Ids}

\* the envelope publishEvent builds, with the key it is sent under; cid is the
\* customer the data is about (data.id of a signup, data.customerId otherwise)
\* and data = {customerId, stepId, customer, product}
Event(type, c, stepId, productId, snapshot) ==
  [type |-> type, cid |-> c, stepId |-> stepId, productId |-> productId,
   customer |-> snapshot, key |-> MessageKey(type, c)]

\* producer.send: the message is appended to the stream of its key
Enqueue(q, topic, ev) ==
  [q EXCEPT ![topic][ev.key] = Append(@, ev)]

\* the head message of the stream of an event of the given type for customer
\* c, if it has that type
HasHead(topic, c, type) ==
  /\ queue[topic][MessageKey(type, c)] # <<>>
  /\ Head(queue[topic][MessageKey(type, c)]).type = type

\* a message is taken off its stream when its offset is committed; the broker
\* delivers it again otherwise (at-least-once delivery)
Deliver(topic, k, commit) ==
  IF commit
    THEN /\ queue' = [queue EXCEPT ![topic][k] = Tail(@)]
         /\ UNCHANGED faults
    ELSE /\ Budget
         /\ faults' = faults + 1
         /\ UNCHANGED queue

\* the outcome of one producer.send: it resolves, or (a bounded number of
\* times) rejects
SendOutcome(ok) == ok \/ Budget
CountFailure(ok) == faults' = IF ok THEN faults ELSE faults + 1

\* ---------------------------------------------------------------- timers
TimerState == [timers |-> timers, pending |-> pending, seq |-> timerSeq]

\* cancelReminderTimer calling clearTimeout but leaving the entry in the table
CancelReminderTimerNoDelete(ts, c) ==
  IF c \in DOMAIN ts.timers
    THEN [ts EXCEPT !.pending = @ \ {<<c, ts.timers[c]>>}]
    ELSE ts

\* cancelReminderTimer deleting the entry without calling clearTimeout
CancelReminderTimerNoClear(ts, c) ==
  IF c \in DOMAIN ts.timers
    THEN [ts EXCEPT !.timers = MapDelete(@, c)]
    ELSE ts

\* cancelReminderTimer clearing every timeout of the table (timers.clear())
CancelReminderTimerAll(ts, c) ==
  IF c \in DOMAIN ts.timers
    THEN [ts EXCEPT !.timers = <<>>, !.pending = {}]
    ELSE ts

CancelReminderTimer(ts, c) ==
  IF c \in DOMAIN ts.timers
    THEN [ts EXCEPT !.timers = MapDelete(@, c),
                    !.pending = @ \ {<<c, ts.timers[c]>>}]
    ELSE ts

\* scheduleReminderCheck without its cancelReminderTimer call
ScheduleReminderCheckNoCancel(ts, c) ==
  LET h == ts.seq[c] + 1
  IN [timers |-> MapSet(ts.timers, c, h),
      pending |-> ts.pending \cup {<<c, h>>},
      seq |-> [ts.seq EXCEPT ![c] = h]]

ScheduleReminderCheck(ts, c) ==
  LET t0 == CancelReminderTimer(ts, c)
      h == t0.seq[c] + 1
  IN [timers |-> MapSet(t0.timers, c, h),
      pending |-> t0.pending \cup {<<c, h>>},
      seq |-> [t0.seq EXCEPT ![c] = h]]

SetTimers(ts) ==
  /\ timers' = ts.timers
  /\ pending' = ts.pending
  /\ timerSeq' = ts.seq

\* handleCustomerSignup without its scheduleReminderCheck call
BookkeepingNoSchedule(type, c, ts) ==
  CASE type = PRODUCT_PAGE_VISIT -> ScheduleReminderCheck(CancelReminderTimer(ts, c), c)
    [] OTHER -> ts

\* handleProductPageVisit cancelling the timer without scheduling a new one
BookkeepingCancelOnly(type, c, ts) ==
  CASE type = CUSTOMER_SIGNUP -> ScheduleReminderCheck(ts, c)
    [] type = PRODUCT_PAGE_VISIT -> CancelReminderTimer(ts, c)
    [] OTHER -> ts

\* what the handler of an event does after triggerWorkflowStep has returned
\* (or was skipped): handleCustomerSignup schedules the reminder check,
\* handleProductPageVisit cancels and reschedules, the others do nothing
Bookkeeping(type, c, ts) ==
  CASE type = CUSTOMER_SIGNUP -> ScheduleReminderCheck(ts, c)
    [] type = PRODUCT_PAGE_VISIT -> ScheduleReminderCheck(CancelReminderTimer(ts, c), c)
    [] OTHER -> ts

\* -------------------------------------------------------------- handlers
AwaitStepPublish == "awaitStepPublish"   \* await publishWorkflowStep(workflowData)
AwaitDelivery == "awaitDelivery"         \* await this.simulateEmailDelivery()
AwaitEmailSent == "awaitEmailSent"       \* await publishEmailSent(...)

Handler(type, c, stepId, productId, snapshot, pc) ==
  [type |-> type, cid |-> c, stepId |-> stepId, productId |-> productId,
   customer |-> snapshot, pc |-> pc]

\* eachMessage calling handler(...) without awaiting it
ConsumerReadyNoAwait == TRUE

\* consumer.run({eachMessage}): the next message is handed to the handler only
\* when the handler of the previous one has resolved (await handler(...))
ConsumerReady == handlers = {}

Running == phase = "running"

\* ApiResponse: {success, error?} as a controller sends it, with the request
\* it answers; before the first request there is none
Response(op, c, success, error) ==
  [op |-> op, cid |-> c, success |-> success, error |-> error]
NoResponse == Response("none", "none", FALSE, "none")

Init ==
  /\ phase = "boot"
  /\ isConnected = FALSE
  /\ customers = <<>>
  /\ timers = <<>>
  /\ pending = {}
  /\ timerSeq = [c \in Ids |-> 0]
  /\ queue = [t \in SubscribedTopics |-> [k \in Keys |-> <<>>]]
  /\ handlers = {}
  /\ dispatched = [c \in Ids |-> [s \in StepIds |-> 0]]
  /\ emailSent = [c \in Ids |-> [s \in StepIds |-> 0]]
  /\ fired = {}
  /\ submitted = {}
  /\ requests = 0
  /\ faults = 0
  /\ response = NoResponse

\* ---------------------------------------------- startServer and shutdown
\* startServer: connect() succeeds, then initialize() subscribes
Connect ==
  /\ phase = "boot"
  /\ phase' = "running"
  /\ isConnected' = TRUE
  /\ UNCHANGED <<response, customers, timers, pending, timerSeq, queue, handlers,
                 dispatched, emailSent, fired, submitted, requests, faults>>

\* startServer: connect() throws; subscribeToEvents then throws as well, both
\* are caught and logged, and the HTTP server starts without a consumer
ConnectFail ==
  /\ phase = "boot"
  /\ phase' = "degraded"
  /\ UNCHANGED <<response, isConnected, customers, timers, pending, timerSeq, queue,
                 handlers, dispatched, emailSent, fired, submitted, requests,
                 faults>>

\* The process has ended (process.exit, or a crash): its memory -- registry,
\* timer table, armed timeouts, suspended handlers -- is gone, and the run is
\* not observed any further.
Stopped ==
  /\ phase' = "stopped"
  /\ isConnected' = FALSE
  /\ customers' = <<>>
  /\ timers' = <<>>
  /\ pending' = {}
  /\ timerSeq' = [c \in Ids |-> 0]
  /\ queue' = [t \in SubscribedTopics |-> [k \in Keys |-> <<>>]]
  /\ handlers' = {}
  /\ dispatched' = [c \in Ids |-> [s \in StepIds |-> 0]]
  /\ emailSent' = [c \in Ids |-> [s \in StepIds |-> 0]]
  /\ fired' = {}
  /\ submitted' = {}
  /\ requests' = 0
  /\ faults' = 0
  /\ response' = NoResponse

\* SIGINT: disconnect(), then process.exit
Disconnect ==
  /\ phase \in {"running", "degraded"}
  /\ Stopped

\* ------------------------------------------------------ triggerWorkflowStep
\* The handler has run up to triggerWorkflowStep: publishEvent throws at once
\* when the service is not connected (caught in triggerWorkflowStep, the
\* handler goes on to its bookkeeping), and suspends in producer.send otherwise.
StartTrigger(type, c, stepId, productId, snapshot) ==
  IF isConnected
    THEN /\ handlers' = handlers \cup
              {Handler(type, c, stepId, productId, snapshot, AwaitStepPublish)}
         /\ UNCHANGED <<timers, pending, timerSeq>>
    ELSE /\ UNCHANGED handlers
         /\ SetTimers(Bookkeeping(type, c, TimerState))

\* the handler returns: its bookkeeping runs and the activation ends
Finish(h) ==
  /\ handlers' = handlers \ {h}
  /\ SetTimers(Bookkeeping(h.type, h.cid, TimerState))

\* triggerWorkflowStep without its try/catch: the rejection of the publish
\* leaves the handler before its timer bookkeeping
StepPublishReturnUncaught(h, ok) ==
  /\ phase # "stopped"
  /\ h.pc = AwaitStepPublish
  /\ SendOutcome(ok)
  /\ CountFailure(ok)
  /\ IF ok
       THEN /\ queue' = Enqueue(queue, WORKFLOW_TRIGGERS,
                 Event(WORKFLOW_STEP, h.cid, h.stepId, h.productId, h.customer))
            /\ handlers' = (handlers \ {h}) \cup {[h EXCEPT !.pc = AwaitDelivery]}
            /\ UNCHANGED <<timers, pending, timerSeq>>
       ELSE /\ handlers' = handlers \ {h}
            /\ UNCHANGED <<queue, timers, pending, timerSeq>>
  /\ UNCHANGED <<response, phase, isConnected, customers, dispatched, emailSent, fired,
                 submitted, requests>>

\* producer.send of the workflow-step event returns
StepPublishReturn(h, ok) ==
  /\ phase # "stopped"
  /\ h.pc = AwaitStepPublish
  /\ SendOutcome(ok)
  /\ CountFailure(ok)
  /\ IF ok
       THEN \* executeWorkflowStep(workflowData) starts and suspends in the
            \* email service
            /\ queue' = Enqueue(queue, WORKFLOW_TRIGGERS,
                 Event(WORKFLOW_STEP, h.cid, h.stepId, h.productId, h.customer))
            /\ handlers' = (handlers \ {h}) \cup {[h EXCEPT !.pc = AwaitDelivery]}
            /\ UNCHANGED <<timers, pending, timerSeq>>
       ELSE \* the rejection is caught by triggerWorkflowStep
            /\ UNCHANGED queue
            /\ Finish(h)
  /\ UNCHANGED <<response, phase, isConnected, customers, dispatched, emailSent, fired,
                 submitted, requests>>

\* emailService.send*Email: the simulated delivery is over, the email is
\* logged as sent, and publishEmailSent is called
DeliveryDone(h) ==
  /\ phase # "stopped"
  /\ h.pc = AwaitDelivery
  /\ dispatched' = [dispatched EXCEPT ![h.cid][h.stepId] = @ + 1]
  /\ IF isConnected
       THEN /\ handlers' = (handlers \ {h}) \cup {[h EXCEPT !.pc = AwaitEmailSent]}
            /\ UNCHANGED <<timers, pending, timerSeq>>
       ELSE Finish(h)
  /\ UNCHANGED <<response, phase, isConnected, customers, queue, emailSent, fired,
                 submitted, requests, faults>>

\* the timestamp new Date().toISOString() of a completion, as a logical time:
\* the number of the customer's email-sent events so far
Now(c) == emailSent[c][1] + emailSent[c][2] + emailSent[c][3] + 1

\* executeWorkflowStep setting the flag of the step but never calling
\* markStepCompleted
CompleteStepNoMark(h) ==
  LET obj == IF h.cid \in DOMAIN customers THEN customers[h.cid] ELSE h.customer
      ws == UpdateWorkflowState(obj.workflowState, h.stepId, Now(h.cid))
  IN MapSet(customers, h.cid, [obj EXCEPT !.workflowState = ws])

\* executeWorkflowStep after the email service has returned:
\* updateWorkflowState, markStepCompleted, customers.set
CompleteStep(h) ==
  LET obj == IF h.cid \in DOMAIN customers THEN customers[h.cid] ELSE h.customer
      ws == MarkStepCompleted(
              UpdateWorkflowState(obj.workflowState, h.stepId, Now(h.cid)),
              h.stepId)
  IN MapSet(customers, h.cid, [obj EXCEPT !.workflowState = ws])

\* the rejection of the email-sent publish caught nowhere (not in the email
\* service, executeWorkflowStep, handleEvent or eachMessage): the activation
\* never resolves
EmailSentReturnUncaught(h, ok) ==
  /\ phase # "stopped"
  /\ h.pc = AwaitEmailSent
  /\ SendOutcome(ok)
  /\ CountFailure(ok)
  /\ IF ok
       THEN /\ emailSent' = [emailSent EXCEPT ![h.cid][h.stepId] = @ + 1]
            /\ customers' = CompleteStep(h)
            /\ Finish(h)
       ELSE /\ handlers' = (handlers \ {h}) \cup {[h EXCEPT !.pc = "thrown"]}
            /\ UNCHANGED <<emailSent, customers, timers, pending, timerSeq>>
  /\ UNCHANGED <<response, phase, isConnected, queue, dispatched, fired, submitted,
                 requests>>

\* the email service swallowing the rejection of the email-sent publish:
\* executeWorkflowStep goes on and completes the step
EmailSentReturnIgnoreFailure(h, ok) ==
  /\ phase # "stopped"
  /\ h.pc = AwaitEmailSent
  /\ SendOutcome(ok)
  /\ CountFailure(ok)
  /\ emailSent' = IF ok THEN [emailSent EXCEPT ![h.cid][h.stepId] = @ + 1]
                     ELSE emailSent
  /\ customers' = CompleteStep(h)
  /\ Finish(h)
  /\ UNCHANGED <<response, phase, isConnected, queue, dispatched, fired, submitted,
                 requests>>

\* producer.send of the email-sent event returns
EmailSentReturn(h, ok) ==
  /\ phase # "stopped"
  /\ h.pc = AwaitEmailSent
  /\ SendOutcome(ok)
  /\ CountFailure(ok)
  /\ IF ok
       THEN /\ emailSent' = [emailSent EXCEPT ![h.cid][h.stepId] = @ + 1]
            /\ customers' = CompleteStep(h)
       ELSE \* rethrown by the email service, caught by executeWorkflowStep
            UNCHANGED <<emailSent, customers>>
  /\ Finish(h)
  /\ UNCHANGED <<response, phase, isConnected, queue, dispatched, fired, submitted,
                 requests>>

\* ------------------------------------------------------------ handleEvent
\* case 'CUSTOMER_SIGNUP': handleCustomerSignup(event.data)
HandleCustomerSignup(c, commit) ==
  /\ Running
  /\ ConsumerReady
  /\ HasHead(CUSTOMER_EVENTS, c, CUSTOMER_SIGNUP)
  /\ Deliver(CUSTOMER_EVENTS, MessageKey(CUSTOMER_SIGNUP, c), commit)
  /\ LET customer == NewCustomer(InitialWorkflowState, NoVisit)
     IN /\ customers' = MapSet(customers, c, customer)
        /\ StartTrigger(CUSTOMER_SIGNUP, c, STEP_1_WELCOME, NoVisit, customer)
  /\ UNCHANGED <<response, phase, isConnected, dispatched, emailSent, fired, submitted,
                 requests>>

\* handleProductPageVisit refreshing the activity but not the metadata
RecordVisitNoMetadata(customer, productId) ==
  [customer EXCEPT !.lastActivity = "visit"]

\* customer.updateLastActivity(); customer.metadata.lastProductVisit = {...}
RecordVisit(customer, productId) ==
  [customer EXCEPT !.lastActivity = "visit", !.lastProductVisit = productId]

\* handleProductPageVisit with customers.get(id) || new Customer(...) in place
\* of its lookup and early return
HandleProductPageVisitNoLookup(c, commit) ==
  /\ Running
  /\ ConsumerReady
  /\ HasHead(CUSTOMER_EVENTS, c, PRODUCT_PAGE_VISIT)
  /\ Deliver(CUSTOMER_EVENTS, c, commit)
  /\ LET ev == Head(queue[CUSTOMER_EVENTS][c])
         old == IF c \in DOMAIN customers THEN customers[c] ELSE NoSnapshot
         customer == RecordVisit(old, ev.productId)
     IN /\ customers' = MapSet(customers, c, customer)
        /\ IF ~IsStepCompleted(customer, STEP_2_DISCOUNT)
             THEN StartTrigger(PRODUCT_PAGE_VISIT, c, STEP_2_DISCOUNT,
                               ev.productId, customer)
             ELSE /\ UNCHANGED handlers
                  /\ SetTimers(Bookkeeping(PRODUCT_PAGE_VISIT, c, TimerState))
  /\ UNCHANGED <<response, phase, isConnected, dispatched, emailSent, fired, submitted,
                 requests>>

\* case 'PRODUCT_PAGE_VISIT': handleProductPageVisit(event.data)
HandleProductPageVisit(c, commit) ==
  /\ Running
  /\ ConsumerReady
  /\ HasHead(CUSTOMER_EVENTS, c, PRODUCT_PAGE_VISIT)
  /\ Deliver(CUSTOMER_EVENTS, c, commit)
  /\ LET ev == Head(queue[CUSTOMER_EVENTS][c])
     IN IF c \notin DOMAIN customers
          THEN UNCHANGED <<customers, handlers, timers, pending, timerSeq>>
          ELSE LET customer == RecordVisit(customers[c], ev.productId)
               IN /\ customers' = MapSet(customers, c, customer)
                  /\ IF ~IsStepCompleted(customer, STEP_2_DISCOUNT)
                       THEN StartTrigger(PRODUCT_PAGE_VISIT, c, STEP_2_DISCOUNT,
                                         ev.productId, customer)
                       ELSE /\ UNCHANGED handlers
                            /\ SetTimers(Bookkeeping(PRODUCT_PAGE_VISIT, c, TimerState))
  /\ UNCHANGED <<response, phase, isConnected, dispatched, emailSent, fired, submitted,
                 requests>>

\* handleCustomerInactive returning before it triggers the reminder step
HandleCustomerInactiveNoTrigger(c, commit) ==
  /\ Running
  /\ ConsumerReady
  /\ HasHead(CUSTOMER_EVENTS, c, CUSTOMER_INACTIVE)
  /\ Deliver(CUSTOMER_EVENTS, c, commit)
  /\ UNCHANGED <<handlers, timers, pending, timerSeq>>
  /\ UNCHANGED <<response, phase, isConnected, customers, dispatched, emailSent, fired,
                 submitted, requests>>

\* case 'CUSTOMER_INACTIVE': handleCustomerInactive(event.data)
HandleCustomerInactive(c, commit) ==
  /\ Running
  /\ ConsumerReady
  /\ HasHead(CUSTOMER_EVENTS, c, CUSTOMER_INACTIVE)
  /\ Deliver(CUSTOMER_EVENTS, c, commit)
  /\ IF c \in DOMAIN customers /\ ~IsStepCompleted(customers[c], STEP_3_REMINDER)
       THEN StartTrigger(CUSTOMER_INACTIVE, c, STEP_3_REMINDER, NoVisit, customers[c])
       ELSE UNCHANGED <<handlers, timers, pending, timerSeq>>
  /\ UNCHANGED <<response, phase, isConnected, customers, dispatched, emailSent, fired,
                 submitted, requests>>

\* case 'WORKFLOW_TRIGGER' / 'WORKFLOW_STEP': executeWorkflowStep(event.data),
\* which suspends in the email service
HandleWorkflowStep(c, commit) ==
  /\ Running
  /\ ConsumerReady
  /\ HasHead(WORKFLOW_TRIGGERS, c, WORKFLOW_STEP)
  /\ Deliver(WORKFLOW_TRIGGERS, c, commit)
  /\ LET ev == Head(queue[WORKFLOW_TRIGGERS][c])
     IN handlers' = handlers \cup
          {Handler(WORKFLOW_STEP, c, ev.stepId, ev.productId, ev.customer, AwaitDelivery)}
  /\ UNCHANGED <<response, phase, isConnected, customers, timers, pending, timerSeq,
                 dispatched, emailSent, fired, submitted, requests>>

\* ------------------------------------------------------------------ timer
\* the callback has run, and has or has not published customer-inactive
TimerFired(c, n, publish, rejected) ==
  /\ pending' = pending \ {<<c, n>>}
  /\ fired' = fired \cup {<<c, n>>}
  /\ queue' = IF publish
                THEN Enqueue(queue, CUSTOMER_EVENTS,
                       Event(CUSTOMER_INACTIVE, c, 0, NoVisit, NoSnapshot))
                ELSE queue
  /\ faults' = IF rejected THEN faults + 1 ELSE faults
  /\ UNCHANGED <<response, phase, isConnected, customers, timers, timerSeq, handlers,
                 dispatched, emailSent, submitted, requests>>

\* the callback without its isStepCompleted(3) test
StillInactiveNoCheck(c) == c \in DOMAIN customers

\* the check of the callback: the customer is known and step 3 is not completed
StillInactive(c) ==
  /\ c \in DOMAIN customers
  /\ ~IsStepCompleted(customers[c], STEP_3_REMINDER)

\* the setTimeout callback of scheduleReminderCheck runs: the freshness check,
\* then publishCustomerInactive. The callback has no catch: a rejected publish
\* is an unhandled rejection, on which the runtime goes on or ends the process.
TimerFire(c, n, ok) ==
  /\ phase # "stopped"
  /\ <<c, n>> \in pending
  /\ IF StillInactive(c)
       THEN /\ SendOutcome(ok)
            /\ IF isConnected /\ ok
                 THEN TimerFired(c, n, TRUE, FALSE)
                 ELSE \/ TimerFired(c, n, FALSE, ~ok)
                      \/ Stopped
       ELSE /\ ok
            /\ TimerFired(c, n, FALSE, FALSE)

\* -------------------------------------------------------- customerService
\* uuidv4(): an id no customer has; the ids are handed out in order
FreshId(c) ==
  /\ Cardinality(submitted) < Len(IdSeq)
  /\ c = IdSeq[Cardinality(submitted) + 1]

\* createCustomer over a publishEvent without its isConnected test
CreateCustomerNoConnectedCheck(c, ok) ==
  /\ phase \in {"running", "degraded"}
  /\ FreshId(c)
  /\ Budget
  /\ SendOutcome(ok)
  /\ CountFailure(ok)
  /\ IF ok
       THEN /\ queue' = Enqueue(queue, CUSTOMER_EVENTS,
                 Event(CUSTOMER_SIGNUP, c, 0, NoVisit, NoSnapshot))
            /\ submitted' = submitted \cup {c}
            /\ requests' = requests + 1
       ELSE UNCHANGED <<queue, submitted, requests>>
  /\ UNCHANGED <<phase, isConnected, customers, timers, pending, timerSeq,
                 handlers, dispatched, emailSent, fired>>

\* createCustomer: a fresh uuid, publishCustomerSignup; a throw (not connected,
\* or a rejected send) is answered with an error and publishes nothing
CreateCustomer(c, ok) ==
  /\ phase \in {"running", "degraded"}
  /\ FreshId(c)
  /\ Budget
  /\ SendOutcome(ok)
  /\ IF isConnected
       THEN /\ CountFailure(ok)
            /\ IF ok
                 THEN /\ queue' = Enqueue(queue, CUSTOMER_EVENTS,
                           Event(CUSTOMER_SIGNUP, c, 0, NoVisit, NoSnapshot))
                      /\ submitted' = submitted \cup {c}
                      /\ requests' = requests + 1
                 ELSE UNCHANGED <<queue, submitted, requests>>
       ELSE /\ ok
            /\ UNCHANGED <<queue, submitted, requests, faults>>
  /\ UNCHANGED <<phase, isConnected, customers, timers, pending, timerSeq,
                 handlers, dispatched, emailSent, fired>>

\* recordProductVisit: 'Customer not found' unless the id is in the registry,
\* then publishProductPageVisit
RecordProductVisit(c, p, ok) ==
  /\ phase \in {"running", "degraded"}
  /\ c \in DOMAIN customers
  /\ Budget
  /\ SendOutcome(ok)
  /\ CountFailure(ok)
  /\ IF isConnected /\ ok
       THEN /\ queue' = Enqueue(queue, CUSTOMER_EVENTS,
                 Event(PRODUCT_PAGE_VISIT, c, 0, p, NoSnapshot))
            /\ requests' = requests + 1
       ELSE UNCHANGED <<queue, requests>>
  /\ UNCHANGED <<phase, isConnected, customers, timers, pending, timerSeq,
                 handlers, dispatched, emailSent, fired, submitted>>

\* customerService.simulateTimePassage -> workflowEngine.simulateTimePassage:
\* for a customer with an entry in the timer table, cancel it and publish
\* customer-inactive
SimulateTimePassage(c, ok) ==
  /\ phase \in {"running", "degraded"}
  /\ c \in DOMAIN customers
  /\ c \in DOMAIN timers
  /\ Budget
  /\ requests' = requests + 1
  /\ SetTimers(CancelReminderTimer(TimerState, c))
  /\ SendOutcome(ok)
  /\ CountFailure(ok)
  /\ IF isConnected /\ ok
       THEN queue' = Enqueue(queue, CUSTOMER_EVENTS,
              Event(CUSTOMER_INACTIVE, c, 0, NoVisit, NoSnapshot))
       ELSE UNCHANGED queue
  /\ UNCHANGED <<phase, isConnected, customers, handlers, dispatched, emailSent,
                 fired, submitted>>

\* ------------------------------------------------------------------- spec
\* the suspended handler, or an armed timeout, that the event loop resumes
StepPublishReturns == \E h \in handlers, ok \in BOOLEAN : StepPublishReturn(h, ok)
DeliveryEnds == \E h \in handlers : DeliveryDone(h)
EmailSentReturns == \E h \in handlers, ok \in BOOLEAN : EmailSentReturn(h, ok)
TimerFires == \E t \in pending, ok \in BOOLEAN : TimerFire(t[1], t[2], ok)

Next ==
  \/ Connect
  \/ ConnectFail
  \/ Disconnect
  \/ \E c \in Ids, ok \in BOOLEAN : CreateCustomer(c, ok) /\ UNCHANGED response
  \/ \E c \in Ids, p \in Products, ok \in BOOLEAN :
       RecordProductVisit(c, p, ok) /\ UNCHANGED response
  \/ \E c \in Ids, ok \in BOOLEAN : SimulateTimePassage(c, ok) /\ UNCHANGED response
  \/ \E c \in Ids, commit \in BOOLEAN : HandleCustomerSignup(c, commit)
  \/ \E c \in Ids, commit \in BOOLEAN : HandleProductPageVisit(c, commit)
  \/ \E c \in Ids, commit \in BOOLEAN : HandleCustomerInactive(c, commit)
  \/ \E c \in Ids, commit \in BOOLEAN : HandleWorkflowStep(c, commit)
  \/ StepPublishReturns
  \/ DeliveryEnds
  \/ EmailSentReturns
  \/ TimerFires

Spec == Init /\ [][Next]_vars

\* ---------------------------------------------------------------- restart
\* The process starts against a broker that still holds one message of the
\* previous run of the process: consumer.subscribe({fromBeginning: false})
\* resumes the consumer group after its last committed offset, while the
\* registry and the timer table (in-memory maps) start empty. The message is
\* a product visit, a customer-inactive event or the workflow-step event of
\* the welcome step (with the snapshot taken at the signup) of a customer of
\* that run, whose id uuidv4() does not hand out again.
LeftOver ==
  {<<CUSTOMER_EVENTS, Event(PRODUCT_PAGE_VISIT, IdSeq[1], 0, p, NoSnapshot)>> :
     p \in Products}
  \cup {<<CUSTOMER_EVENTS, Event(CUSTOMER_INACTIVE, IdSeq[1], 0, NoVisit, NoSnapshot)>>,
        <<WORKFLOW_TRIGGERS, Event(WORKFLOW_STEP, IdSeq[1], STEP_1_WELCOME, NoVisit,
                                   NewCustomer(InitialWorkflowState, NoVisit))>>}

InitRestart ==
  /\ phase = "boot"
  /\ isConnected = FALSE
  /\ customers = <<>>
  /\ timers = <<>>
  /\ pending = {}
  /\ timerSeq = [c \in Ids |-> 0]
  /\ \E left \in LeftOver :
       queue = [t \in SubscribedTopics |-> [k \in Keys |->
                 IF t = left[1] /\ k = left[2].key THEN <<left[2]>> ELSE <<>>]]
  /\ handlers = {}
  /\ dispatched = [c \in Ids |-> [s \in StepIds |-> 0]]
  /\ emailSent = [c \in Ids |-> [s \in StepIds |-> 0]]
  /\ fired = {}
  /\ submitted = {IdSeq[1]}
  /\ requests = 1
  /\ faults = 0
  /\ response = NoResponse

RestartSpec == InitRestart /\ [][Next]_vars

\* --------------------------------------------------------------- liveness
\* The program on a bus that connects and stays connected, with a broker that
\* delivers every message once and accepts every publish, and an email
\* service whose deliveries succeed; the process is not shut down. The visits
\* are all for one product: the product id plays no part in what is scheduled.
ConsumerStep(c) ==
  \/ HandleCustomerSignup(c, TRUE)
  \/ HandleProductPageVisit(c, TRUE)
  \/ HandleCustomerInactive(c, TRUE)
  \/ HandleWorkflowStep(c, TRUE)

AwaitReturns ==
  \E h \in handlers :
    StepPublishReturn(h, TRUE) \/ DeliveryDone(h) \/ EmailSentReturn(h, TRUE)

TimerExpires(c) == \E t \in pending : t[1] = c /\ TimerFire(c, t[2], TRUE)

LiveNext ==
  \/ Connect
  \/ \E c \in Ids : CreateCustomer(c, TRUE) /\ UNCHANGED response
  \/ \E c \in Ids : RecordProductVisit(c, "P1", TRUE) /\ UNCHANGED response
  \/ \E c \in Ids : SimulateTimePassage(c, TRUE) /\ UNCHANGED response
  \/ \E c \in Ids : ConsumerStep(c)
  \/ AwaitReturns
  \/ \E c \in Ids : TimerExpires(c)

\* consumer.run hands every message of a stream to the handler in turn, the
\* event loop resumes every settled await, and an armed setTimeout that is not
\* cleared runs its callback when its delay is over
Fairness ==
  /\ \A c \in Ids : WF_vars(ConsumerStep(c))
  /\ WF_vars(AwaitReturns)
  /\ \A c \in Ids : WF_vars(TimerExpires(c))

LiveSpec == Init /\ [][LiveNext]_vars /\ Fairness

\* ------------------------------------------------------ getWorkflowStatus
\* null for an unknown id; else the steps with their completion, the current
\* step, the completed steps and timers.has(customerId)
GetWorkflowStatus(c) ==
  IF c \notin DOMAIN customers
    THEN [found |-> FALSE]
    ELSE [found |-> TRUE,
          customer |-> customers[c],
          steps |-> [s \in StepIds |->
                      [completed |-> IsStepCompleted(customers[c], s),
                       completedAt |-> IF IsStepCompleted(customers[c], s)
                                         THEN customers[c].workflowState.lastEmailSent
                                         ELSE 0]],
          currentStep |-> customers[c].workflowState.currentStep,
          completedSteps |-> customers[c].workflowState.completedSteps,
          hasActiveReminder |-> c \in DOMAIN timers]

\* ------------------------------------------------------------ controllers
\* a path parameter that is not a uuid
MalformedId == "not-a-uuid"
\* the customerId path parameters of the requests
RequestIds == Ids \cup {MalformedId}

\* customerValidator.validateCustomerId: Joi.string().uuid().required()
ValidateCustomerId(c) ==
  IF c \in Ids
    THEN [isValid |-> TRUE, error |-> ""]
    ELSE [isValid |-> FALSE, error |-> "Invalid customer ID format"]

CUSTOMER_NOT_FOUND == "Customer not found"

\* String.prototype.includes
Includes(s, sub) ==
  \E i \in 1..(Len(s) - Len(sub) + 1) : SubSeq(s, i, i + Len(sub) - 1) = sub

\* getStatusCode(error) of the controllers
GetStatusCode(error) ==
  IF error = CUSTOMER_NOT_FOUND THEN 404
  ELSE IF Includes(error, "required") \/ Includes(error, "Invalid") THEN 400
  ELSE 500

\* res.status(statusCode): result.success ? 201 (signup) or 200 :
\* getStatusCode(result.error || '')
StatusCode(r) ==
  IF r.success
    THEN IF r.op = "signup" THEN 201 ELSE 200
    ELSE GetStatusCode(r.error)

\* app.listen has been called: startServer starts the HTTP server whether or
\* not connect() and initialize() have thrown
Serving == phase \in {"running", "degraded"}

\* a request answered without any effect on the service or the engine
Answer(op, c, success, error) ==
  /\ Serving
  /\ Budget
  /\ requests' = requests + 1
  /\ response' = Response(op, c, success, error)
  /\ UNCHANGED <<phase, isConnected, customers, timers, pending, timerSeq,
                 queue, handlers, dispatched, emailSent, fired, submitted,
                 faults>>

\* POST /api/customers/signup: signup -> createCustomer
ApiSignup(c, ok) ==
  /\ CreateCustomer(c, ok)
  /\ response' = IF isConnected /\ ok
                   THEN Response("signup", c, TRUE, "")
                   ELSE Response("signup", c, FALSE,
                                 "Internal server error during signup")

\* recordProductVisit publishing without looking the customer up
RecordProductVisitNoLookup(c, p, ok) ==
  /\ phase \in {"running", "degraded"}
  /\ Budget
  /\ SendOutcome(ok)
  /\ CountFailure(ok)
  /\ IF isConnected /\ ok
       THEN /\ queue' = Enqueue(queue, CUSTOMER_EVENTS,
                 Event(PRODUCT_PAGE_VISIT, c, 0, p, NoSnapshot))
            /\ requests' = requests + 1
       ELSE UNCHANGED <<queue, requests>>
  /\ UNCHANGED <<phase, isConnected, customers, timers, pending, timerSeq,
                 handlers, dispatched, emailSent, fired, submitted>>

\* productPageVisit over that recordProductVisit
ApiProductPageVisitNoLookup(c, p, ok) ==
  IF ~ValidateCustomerId(c).isValid
    THEN Answer("visit", c, FALSE, ValidateCustomerId(c).error)
    ELSE /\ RecordProductVisitNoLookup(c, p, ok)
         /\ response' = IF isConnected /\ ok
                          THEN Response("visit", c, TRUE, "")
                          ELSE Response("visit", c, FALSE,
                            "Internal server error during product visit recording")

\* POST /api/customers/:customerId/visit: productPageVisit -> recordProductVisit
ApiProductPageVisit(c, p, ok) ==
  IF ~ValidateCustomerId(c).isValid
    THEN Answer("visit", c, FALSE, ValidateCustomerId(c).error)
    ELSE IF c \notin DOMAIN customers
      THEN Answer("visit", c, FALSE, CUSTOMER_NOT_FOUND)
      ELSE /\ RecordProductVisit(c, p, ok)
           /\ response' = IF isConnected /\ ok
                            THEN Response("visit", c, TRUE, "")
                            ELSE Response("visit", c, FALSE,
                              "Internal server error during product visit recording")

\* workflowEngine.simulateTimePassage without its timers.has test
SimulateTimePassageNoTimerCheck(c, ok) ==
  /\ phase \in {"running", "degraded"}
  /\ c \in DOMAIN customers
  /\ Budget
  /\ requests' = requests + 1
  /\ SetTimers(CancelReminderTimer(TimerState, c))
  /\ SendOutcome(ok)
  /\ CountFailure(ok)
  /\ IF isConnected /\ ok
       THEN queue' = Enqueue(queue, CUSTOMER_EVENTS,
              Event(CUSTOMER_INACTIVE, c, 0, NoVisit, NoSnapshot))
       ELSE UNCHANGED queue
  /\ UNCHANGED <<phase, isConnected, customers, handlers, dispatched, emailSent,
                 fired, submitted>>

\* the simulate-time request over that simulateTimePassage
ApiSimulateTimePassageNoTimerCheck(c, ok) ==
  IF ~ValidateCustomerId(c).isValid
    THEN Answer("simulate-time", c, FALSE, ValidateCustomerId(c).error)
    ELSE IF c \notin DOMAIN customers
      THEN Answer("simulate-time", c, FALSE, CUSTOMER_NOT_FOUND)
      ELSE /\ SimulateTimePassageNoTimerCheck(c, ok)
           /\ response' = IF isConnected /\ ok
                            THEN Response("simulate-time", c, TRUE, "")
                            ELSE Response("simulate-time", c, FALSE,
                                   "Internal server error during time simulation")

\* POST /api/customers/:customerId/simulate-time: simulateTimePassage ->
\* customerService.simulateTimePassage -> workflowEngine.simulateTimePassage,
\* which does nothing for a customer without an entry in the timer table
ApiSimulateTimePassage(c, ok) ==
  IF ~ValidateCustomerId(c).isValid
    THEN Answer("simulate-time", c, FALSE, ValidateCustomerId(c).error)
    ELSE IF c \notin DOMAIN customers
      THEN Answer("simulate-time", c, FALSE, CUSTOMER_NOT_FOUND)
      ELSE IF c \notin DOMAIN timers
        THEN Answer("simulate-time", c, TRUE, "")
        ELSE /\ SimulateTimePassage(c, ok)
             /\ response' = IF isConnected /\ ok
                              THEN Response("simulate-time", c, TRUE, "")
                              ELSE Response("simulate-time", c, FALSE,
                                     "Internal server error during time simulation")

\* getCustomerById answering success for whatever customers.get returns;
\* toJSON() of undefined throws and the catch answers
ApiGetCustomerNoCheck(c) ==
  IF ~ValidateCustomerId(c).isValid
    THEN Answer("customer", c, FALSE, ValidateCustomerId(c).error)
    ELSE IF c \notin DOMAIN customers
      THEN Answer("customer", c, FALSE,
                  "Internal server error while fetching customer")
      ELSE Answer("customer", c, TRUE, "")

\* GET /api/customers/:customerId: getCustomer -> getCustomerById
ApiGetCustomer(c) ==
  IF ~ValidateCustomerId(c).isValid
    THEN Answer("customer", c, FALSE, ValidateCustomerId(c).error)
    ELSE IF c \notin DOMAIN customers
      THEN Answer("customer", c, FALSE, CUSTOMER_NOT_FOUND)
      ELSE Answer("customer", c, TRUE, "")

\* GET /api/customers/:customerId/workflow: getWorkflowStatus ->
\* getCustomerWorkflowStatus
ApiGetWorkflowStatus(c) ==
  IF ~ValidateCustomerId(c).isValid
    THEN Answer("workflow", c, FALSE, ValidateCustomerId(c).error)
    ELSE IF ~GetWorkflowStatus(c).found
      THEN Answer("workflow", c, FALSE, CUSTOMER_NOT_FOUND)
      ELSE Answer("workflow", c, TRUE, "")

\* the program driven through its HTTP API, each request leaving its
\* response, over a broker that delivers every message once and accepts every
\* publish of the engine (a publish of the API layer may still be rejected)
ApiNext ==
  \/ Connect
  \/ ConnectFail
  \/ Disconnect
  \/ \E c \in Ids, ok \in BOOLEAN : ApiSignup(c, ok)
  \/ \E c \in RequestIds, p \in Products, ok \in BOOLEAN :
       ApiProductPageVisit(c, p, ok)
  \/ \E c \in RequestIds, ok \in BOOLEAN : ApiSimulateTimePassage(c, ok)
  \/ \E c \in RequestIds : ApiGetCustomer(c)
  \/ \E c \in RequestIds : ApiGetWorkflowStatus(c)
  \/ \E c \in Ids : HandleCustomerSignup(c, TRUE)
  \/ \E c \in Ids : HandleProductPageVisit(c, TRUE)
  \/ \E c \in Ids : HandleCustomerInactive(c, TRUE)
  \/ \E c \in Ids : HandleWorkflowStep(c, TRUE)
  \/ \E h \in handlers : StepPublishReturn(h, TRUE)
  \/ DeliveryEnds
  \/ \E h \in handlers : EmailSentReturn(h, TRUE)
  \/ \E t \in pending : TimerFire(t[1], t[2], TRUE)

ApiSpec == Init /\ [][ApiNext]_vars

\* ------------------------------------------------------ boundary validation
\* request bodies: a name by its length (0: absent or empty), an email and a
\* product id as given, a product name by its length
NoProductId == ""
SignupBodies == [name : {1, 3}, email : {"", "ann@example.com"}]
VisitBodies == [productId : Products \cup {NoProductId}, productName : {0, 6}]

\* Joi.string().min(2).max(100).required() with the messages of the schema
NameErrors(n, required, tooShort) ==
  IF n = 0 THEN <<required>> ELSE IF n < 2 THEN <<tooShort>> ELSE <<>>

\* Joi.string().email().required()
EmailErrors(e) ==
  IF e = "" THEN <<"Email is required">>
  ELSE IF e # "ann@example.com" THEN <<"Invalid email format">> ELSE <<>>

\* error.details.map(detail => detail.message).join(', '): with abortEarly
\* false there is one detail per failing field, in the order of the schema
JoinMessages(msgs) ==
  CASE msgs = <<>> -> ""
    [] Len(msgs) = 1 -> msgs[1]
    [] msgs = <<"Name must be at least 2 characters long", "Email is required">>
         -> "Name must be at least 2 characters long, Email is required"
    [] msgs = <<"Product ID is required", "Product name is required">>
         -> "Product ID is required, Product name is required"

\* BaseValidator.validateWithJoi
ValidateWithJoi(msgs) == [isValid |-> msgs = <<>>, error |-> JoinMessages(msgs)]

\* customerValidator.validateCustomerSignup
ValidateCustomerSignup(body) ==
  ValidateWithJoi(
    NameErrors(body.name, "Name is required",
               "Name must be at least 2 characters long")
    \o EmailErrors(body.email))

\* customerValidator.validateProductVisit
ValidateProductVisit(body) ==
  ValidateWithJoi(
    (IF body.productId = NoProductId THEN <<"Product ID is required">> ELSE <<>>)
    \o NameErrors(body.productName, "Product name is required",
                  "Product name must be at least 2 characters long"))

\* the signup request is answered without an id: uuidv4() has not been called
NoId == "none"

\* createCustomer publishing whatever body it is given
SignupRequestNoValidation(body, c, ok) == ApiSignup(c, ok)

\* POST /api/customers/signup with any body: createCustomer validates it
\* first and returns the validation error
SignupRequest(body, c, ok) ==
  IF ~ValidateCustomerSignup(body).isValid
    THEN Answer("signup", NoId, FALSE, ValidateCustomerSignup(body).error)
    ELSE ApiSignup(c, ok)

\* POST /api/customers/:customerId/visit with any id and body:
\* recordProductVisit validates the id, then the body, then looks the id up
ProductVisitRequest(c, body, ok) ==
  IF ~ValidateCustomerId(c).isValid
    THEN Answer("visit", c, FALSE, ValidateCustomerId(c).error)
    ELSE IF ~ValidateProductVisit(body).isValid
      THEN Answer("visit", c, FALSE, ValidateProductVisit(body).error)
      ELSE ApiProductPageVisit(c, body.productId, ok)

\* the program driven by signup and visit requests with arbitrary bodies and
\* path parameters, over the broker of ApiNext, for as long as no inactivity
\* timer has run out (REMINDER_DELAY_MS after the first signup was handled)
BoundaryNext ==
  \/ Connect
  \/ ConnectFail
  \/ Disconnect
  \/ \E body \in SignupBodies, c \in Ids, ok \in BOOLEAN :
       SignupRequest(body, c, ok)
  \/ \E c \in RequestIds, body \in VisitBodies, ok \in BOOLEAN :
       ProductVisitRequest(c, body, ok)
  \/ \E c \in Ids : HandleCustomerSignup(c, TRUE)
  \/ \E c \in Ids : HandleProductPageVisit(c, TRUE)
  \/ \E c \in Ids : HandleWorkflowStep(c, TRUE)
  \/ \E h \in handlers : StepPublishReturn(h, TRUE)
  \/ DeliveryEnds
  \/ \E h \in handlers : EmailSentReturn(h, TRUE)

BoundarySpec == Init /\ [][BoundaryNext]_vars

\* ================================================================ claims

\* no event about customer c is on the bus
NoEventInFlight(c) ==
  \A t \in SubscribedTopics : \A k \in Keys :
    \A i \in 1..Len(queue[t][k]) : queue[t][k][i].cid # c

\* C1: for every customer and every step, the step's notification is
\* dispatched at most once, whatever events are handled.
C1_DispatchedAtMostOnce ==
  \A c \in Ids : \A s \in StepIds : dispatched[c][s] <= 1

\* C2: in every reachable state, each step id occurs at most once in the
\* completedSteps of every customer of the registry.
C2_CompletedStepsDistinct ==
  \A c \in DOMAIN customers :
    LET cs == customers[c].workflowState.completedSteps
    IN \A i, j \in 1..Len(cs) : i # j => cs[i] # cs[j]

\* a step was executed twice with no broker fault (once directly, once from the
\* consumed workflow-step event) and is in the completed set
C2_Witness ==
  \E c \in DOMAIN customers : \E s \in StepIds :
    /\ faults = 0
    /\ emailSent[c][s] = 2
    /\ IsStepCompleted(customers[c], s)

\* C3: the currentStep stored in the registry for a customer id never
\* decreases from one state to the next.
C3_CurrentStepNeverDecreases ==
  [][\A c \in DOMAIN customers \cap DOMAIN customers' :
       customers'[c].workflowState.currentStep
         >= customers[c].workflowState.currentStep]_vars

\* C4: in every reachable state, for every customer whose completedSteps is
\* not empty, currentStep >= max(completedSteps) + 1.
C4_CurrentStepAboveCompleted ==
  \A c \in DOMAIN customers :
    LET ws == customers[c].workflowState
    IN \A i \in 1..Len(ws.completedSteps) :
         ws.currentStep >= ws.completedSteps[i] + 1

\* a lower step was completed after a higher one
C4_Witness ==
  \E c \in DOMAIN customers :
    customers[c].workflowState.completedSteps = <<1, 3, 2>>

\* C5: once the engine has received a product-visit event for a known
\* customer, the inactivity timer that was pending for that customer before
\* the event never fires: while the visit is being handled no pending timer of
\* the customer fires (afterwards the old timer is cleared).
C5_OldTimerNeverFires ==
  [][\A h \in handlers :
       h.type = PRODUCT_PAGE_VISIT =>
         \A t \in pending : t[1] = h.cid => t \notin fired']_vars

\* C6: the handling of one event for a customer never overlaps the handling
\* of another event for the same customer.
C6_HandlersNeverOverlap ==
  \A h1, h2 \in handlers : h1.cid = h2.cid => h1 = h2

\* a handler is suspended in a dispatch while another event of the same
\* customer waits to be delivered
C6_Witness ==
  \E h \in handlers :
    /\ h.pc = AwaitDelivery
    /\ queue[CUSTOMER_EVENTS][h.cid] # <<>>
    /\ queue[WORKFLOW_TRIGGERS][h.cid] # <<>>

\* C7: if step 3 is already completed for a customer when its inactivity
\* timer fires, the timer publishes nothing; and when a customer-inactive
\* event for it is handled, no reminder is triggered (no handler of a
\* customer-inactive event ever runs for a customer whose step 3 is completed).
C7_NoReminderAfterStep3 ==
  /\ [](\A h \in handlers :
          h.type = CUSTOMER_INACTIVE =>
            ~IsStepCompleted(customers[h.cid], STEP_3_REMINDER))
  /\ [][\A c \in DOMAIN customers :
          IsStepCompleted(customers[c], STEP_3_REMINDER) =>
            /\ \A t \in pending :
                 t[1] = c /\ t \in fired' =>
                   queue' = queue /\ dispatched' = dispatched
            /\ \A h \in handlers' \ handlers :
                 ~(h.type = CUSTOMER_INACTIVE /\ h.cid = c)]_vars

\* with no broker fault, a signup and a visit: two timers of the customer have
\* fired, the reminder was sent for one of them and every event is handled, so
\* the other fired, or had its event handled, with step 3 completed
C7_Witness ==
  \E c \in DOMAIN customers :
    /\ faults = 0
    /\ requests = 2
    /\ Cardinality({t \in fired : t[1] = c}) = 2
    /\ IsStepCompleted(customers[c], STEP_3_REMINDER)
    /\ handlers = {}
    /\ NoEventInFlight(c)

\* workflow status read for c: present, step 1 completed, steps 2 and 3 not
StatusStep1Only(c) ==
  LET st == GetWorkflowStatus(c)
  IN /\ st.found
     /\ st.steps[STEP_1_WELCOME].completed
     /\ ~st.steps[STEP_2_DISCOUNT].completed
     /\ ~st.steps[STEP_3_REMINDER].completed

\* C8 (as stated): right after the signup publish of createCustomer has
\* returned successfully, a workflow-status read for the customer shows
\* step 1 completed and steps 2 and 3 not completed.
C8_StatusRightAfterPublish ==
  [][\A c \in Ids :
       c \notin submitted /\ c \in submitted' => StatusStep1Only(c)']_vars

\* C8 (amended): once the engine has handled the signup event of the customer
\* with a successful welcome dispatch, a workflow-status read at that moment
\* shows step 1 completed and steps 2 and 3 not completed.
C8_StatusAfterSignupHandled ==
  [][\A h \in handlers :
       /\ h.type = CUSTOMER_SIGNUP
       /\ h.pc = AwaitEmailSent
       /\ emailSent'[h.cid][STEP_1_WELCOME] = emailSent[h.cid][STEP_1_WELCOME] + 1
       => StatusStep1Only(h.cid)']_vars

\* a signup has been handled with a successful dispatch, and nothing else
C8_Witness ==
  \E c \in DOMAIN customers :
    /\ handlers = {}
    /\ emailSent[c][STEP_1_WELCOME] = 1
    /\ dispatched[c] = [s \in StepIds |-> IF s = STEP_1_WELCOME THEN 1 ELSE 0]
    /\ StatusStep1Only(c)

\* one signup was accepted and handled, and nothing else happened to the
\* customer: no other request, no broker fault, no timer fired, no handler
\* running and no event of the customer in flight
SingleSignupHandled(c) ==
  /\ c \in DOMAIN customers
  /\ requests = 1
  /\ faults = 0
  /\ fired = {}
  /\ handlers = {}
  /\ NoEventInFlight(c)

\* C9: from an empty registry with a connected bus and successful dispatch,
\* once a single signup for a new customer has been fully handled (no event of
\* it in flight, its inactivity timer not fired), the workflow status shows
\* completedSteps = [1], currentStep = 2 and hasActiveReminder = true.
C9_StatusAfterSingleSignup ==
  \A c \in Ids :
    SingleSignupHandled(c) =>
      LET st == GetWorkflowStatus(c)
      IN /\ st.completedSteps = <<1>>
         /\ st.currentStep = 2
         /\ st.hasActiveReminder

\* the single signup is fully handled, its own workflow-step event included
C9_Witness ==
  \E c \in Ids :
    /\ SingleSignupHandled(c)
    /\ dispatched[c][STEP_1_WELCOME] = 2

\* C10: for a customer whose status is completedSteps = [1], currentStep = 2,
\* once one product-visit event (for product p) has been handled with a
\* successful dispatch, the status shows completedSteps = [1, 2],
\* currentStep = 3 and metadata.lastProductVisit.productId = p.
C10_StatusAfterVisit ==
  [][\A h \in handlers :
       /\ h.type = PRODUCT_PAGE_VISIT
       /\ h.pc = AwaitEmailSent
       /\ GetWorkflowStatus(h.cid).completedSteps = <<1>>
       /\ GetWorkflowStatus(h.cid).currentStep = 2
       /\ emailSent'[h.cid][STEP_2_DISCOUNT] = emailSent[h.cid][STEP_2_DISCOUNT] + 1
       => LET st == GetWorkflowStatus(h.cid)'
          IN /\ st.completedSteps = <<1, 2>>
             /\ st.currentStep = 3
             /\ st.customer.lastProductVisit = h.productId]_vars

\* the visit for product P1 has been handled and nothing is left to handle
C10_Witness ==
  \E c \in DOMAIN customers :
    /\ GetWorkflowStatus(c).completedSteps = <<1, 2>>
    /\ GetWorkflowStatus(c).currentStep = 3
    /\ GetWorkflowStatus(c).customer.lastProductVisit = "P1"
    /\ emailSent[c][STEP_2_DISCOUNT] >= 1
    /\ handlers = {}
    /\ NoEventInFlight(c)

\* the customer-inactive event as publishCustomerInactive builds it
InactiveEvent(c) == Event(CUSTOMER_INACTIVE, c, 0, NoVisit, NoSnapshot)

\* C11: for a customer with completedSteps = [1, 2] and a pending inactivity
\* timer, a force-advance-time call on a connected bus cancels the timer
\* (hasActiveReminder = false) and publishes a customer-inactive event; and
\* once that event has been handled with a successful dispatch, the timer
\* table still having no entry for the customer, the status shows
\* completedSteps = [1, 2, 3], currentStep = 4 and hasActiveReminder = false.
C11_StatusAfterForceAdvance ==
  [][\A c \in DOMAIN customers :
       /\ (/\ GetWorkflowStatus(c).completedSteps = <<1, 2>>
           /\ c \in DOMAIN timers
           /\ <<c, timers[c]>> \in pending
           /\ isConnected
           /\ SimulateTimePassage(c, TRUE))
          => /\ ~GetWorkflowStatus(c)'.hasActiveReminder
             /\ \A t \in pending' : t[1] # c
             /\ queue'[CUSTOMER_EVENTS][c]
                  = Append(queue[CUSTOMER_EVENTS][c], InactiveEvent(c))
       /\ \A h \in handlers :
            (/\ h.cid = c
             /\ h.type = CUSTOMER_INACTIVE
             /\ h.pc = AwaitEmailSent
             /\ GetWorkflowStatus(c).completedSteps = <<1, 2>>
             /\ ~GetWorkflowStatus(c).hasActiveReminder
             /\ emailSent'[c][STEP_3_REMINDER] = emailSent[c][STEP_3_REMINDER] + 1)
            => LET st == GetWorkflowStatus(c)'
               IN /\ st.completedSteps = <<1, 2, 3>>
                  /\ st.currentStep = 4
                  /\ ~st.hasActiveReminder]_vars

\* signup, visit and force-advance have been handled with no broker fault and
\* no timer has fired, so the reminder came from the force-advance call
C11_Witness ==
  \E c \in DOMAIN customers :
    /\ GetWorkflowStatus(c).completedSteps = <<1, 2, 3>>
    /\ GetWorkflowStatus(c).currentStep = 4
    /\ ~GetWorkflowStatus(c).hasActiveReminder
    /\ faults = 0
    /\ fired = {}
    /\ handlers = {}
    /\ NoEventInFlight(c)

\* C12: in every reachable state there is at most one pending (armed, not
\* fired, not cancelled) inactivity timer per customer id.
C12_AtMostOnePendingTimer ==
  \A c \in Ids : Cardinality({t \in pending : t[1] = c}) <= 1

\* a second timer was armed for a customer whose first timer was still
\* pending: the first was cleared without having fired
C12_Witness ==
  \E c \in Ids :
    /\ <<c, 2>> \in pending
    /\ <<c, 1>> \notin fired

\* the timeout n of customer c has been cancelled: it was armed and the timer
\* table no longer holds it (only cancelReminderTimer takes an entry out)
Cancelled(c, n) ==
  /\ n \in 1..timerSeq[c]
  /\ c \notin DOMAIN timers \/ timers[c] # n

\* C13: once cancelReminderTimer(customerId) has returned, the callback of the
\* timer that was pending for the customer never runs afterwards (and so
\* publishes no customer-inactive event).
C13_CancelledTimerNeverFires ==
  [][\A c \in Ids : \A n \in 1..timerSeq[c] :
       Cancelled(c, n) /\ <<c, n>> \notin fired => <<c, n>> \notin fired']_vars

\* the first timer of a customer was cancelled while pending and never ran,
\* although time went on until the timer armed after it fired
C13_Witness ==
  \E c \in Ids :
    /\ Cancelled(c, 1)
    /\ <<c, 1>> \notin fired
    /\ <<c, 2>> \in fired

\* C14: handling a signup event for a customer id whose step 1 is already in
\* the completed set starts no welcome dispatch (triggerWorkflowStep is not
\* called for step 1).
C14_NoWelcomeWhenStep1Completed ==
  [][\A c \in DOMAIN customers :
       IsStepCompleted(customers[c], STEP_1_WELCOME) =>
         \A h \in handlers' \ handlers :
           ~(h.cid = c /\ h.type = CUSTOMER_SIGNUP /\ h.stepId = STEP_1_WELCOME)]_vars

\* the events that trigger a step: signup, product visit, inactivity
TriggerTypes == {CUSTOMER_SIGNUP, PRODUCT_PAGE_VISIT, CUSTOMER_INACTIVE}

\* a dispatch ends in failure (the email-sent publish throws) and the process
\* goes on: the registry is as it was, so the step is not added to
\* completedSteps, its flag is not set and currentStep is unchanged
FailedDispatchLeavesStep ==
  \A h \in handlers :
    (/\ h.pc = AwaitEmailSent
     /\ h \notin handlers'
     /\ phase' = phase
     /\ emailSent' = emailSent)
    => customers' = customers

\* a dispatch of a step starts, after an earlier dispatch of that step to the
\* customer has failed (more deliveries than email-sent events), only in the
\* handler of a trigger event
RetriedOnlyByTrigger ==
  \A h \in handlers' \ handlers :
    (/\ h.pc = AwaitDelivery
     /\ dispatched[h.cid][h.stepId] > emailSent[h.cid][h.stepId])
    => h.type \in TriggerTypes

\* C16: if the notification dispatch for a step fails, the step id is not
\* added to completedSteps, its completion flag stays false and currentStep is
\* unchanged; and the step is attempted again only when a later trigger event
\* for it is handled.
C16_FailedStepStaysIncomplete ==
  [][FailedDispatchLeavesStep /\ RetriedOnlyByTrigger]_vars

\* C17: an exception raised while handling one event (a rejected publish in
\* triggerWorkflowStep or in the dispatch) is caught: the activation ends, the
\* engine keeps running with the consumer ready for the next message, and no
\* queued message is lost, so the events delivered after it are still handled.
C17_FailureDoesNotStopConsumer ==
  [][\A h \in handlers :
       StepPublishReturn(h, FALSE) \/ EmailSentReturn(h, FALSE)
       => /\ phase' = "running"
          /\ handlers' = {}
          /\ ConsumerReady'
          /\ queue' = queue
          /\ customers' = customers]_vars

\* the workflow-step publish of the signup handler was rejected (one fault, no
\* welcome delivery at all), and the product-visit event delivered after it
\* has been handled and has completed step 2
C17_Witness ==
  \E c \in DOMAIN customers :
    /\ requests = 2
    /\ faults = 1
    /\ dispatched[c][STEP_1_WELCOME] = 0
    /\ customers[c].workflowState.completedSteps = <<STEP_2_DISCOUNT>>
    /\ handlers = {}
    /\ NoEventInFlight(c)

\* no event is published in the step: every stream is as it was, or has lost
\* its head (the handled message)
NothingPublished ==
  \A t \in SubscribedTopics : \A k \in Keys :
    \/ queue'[t][k] = queue[t][k]
    \/ queue[t][k] # <<>> /\ queue'[t][k] = Tail(queue[t][k])

\* C15: handling a product-visit or customer-inactive event whose customer id
\* is not in the registry discards the event: the registry and the timer
\* table are unchanged, no notification is dispatched (no dispatch is even
\* started) and no further event is published.
C15_UnknownIdEventDiscarded ==
  [][\A c \in Ids :
       (/\ c \notin DOMAIN customers
        /\ \E commit \in BOOLEAN :
             HandleProductPageVisit(c, commit) \/ HandleCustomerInactive(c, commit))
       => /\ UNCHANGED <<customers, timers, pending, timerSeq, handlers,
                         dispatched, emailSent>>
          /\ NothingPublished]_vars

\* the visit or customer-inactive message left by the previous run has been
\* handled and committed (no message is left and nothing was delivered), and
\* its customer id is still not in the registry
C15_Witness ==
  /\ phase = "running"
  /\ IdSeq[1] \notin DOMAIN customers
  /\ \A t \in SubscribedTopics : \A k \in Keys : queue[t][k] = <<>>
  /\ handlers = {}
  /\ \A s \in StepIds : dispatched[IdSeq[1]][s] = 0

\* some event is enqueued, or some email-sent event published, in the step
SomethingPublished ==
  \/ \E t \in SubscribedTopics : \E k \in Keys :
       Len(queue'[t][k]) > Len(queue[t][k])
  \/ \E c \in Ids : \E s \in StepIds : emailSent'[c][s] > emailSent[c][s]

\* C18: while the event service is not connected, a publish fails with an
\* error (the signup request that asked for it is answered success: false)
\* and enqueues nothing, and subscribe fails as well (no handler ever runs:
\* nothing is dispatched and the registry stays empty); a publish succeeds
\* only while the service is connected, that is after connect() succeeded
\* and before the disconnect of the shutdown.
C18_NoPublishUnlessConnected ==
  /\ [](~isConnected =>
          /\ handlers = {}
          /\ customers = <<>>
          /\ \A c \in Ids : \A s \in StepIds : dispatched[c][s] = 0)
  /\ [][(\A c \in Ids :
            ~isConnected /\ ApiSignup(c, TRUE)
            => /\ ~response'.success
               /\ queue' = queue
               /\ submitted' = submitted)
        /\ (SomethingPublished
              => isConnected /\ isConnected' /\ phase = "running")]_vars

\* connect() has failed, and a signup request was answered with an error
C18_Witness ==
  /\ phase = "degraded"
  /\ ~isConnected
  /\ response.op = "signup"
  /\ ~response.success

\* C19: when the broker connection has failed at startup, a signup submitted
\* in that mode is accepted (the first thing the in-memory mode of the claim
\* requires, before the customer is created and the welcome step executed):
\* every response to a signup is a success and the customer id is submitted.
C19_DegradedSignupAccepted ==
  phase = "degraded" /\ response.op = "signup"
  => response.success /\ response.cid \in submitted

\* C20: a query operation (get customer, get workflow status, force-advance
\* time, record product visit) called with a well-formed customer id that is
\* not in the registry is answered, as a value, with success: false and
\* 'Customer not found', and changes nothing in the service or the engine.
C20_UnknownIdNotFound ==
  [][\A c \in Ids :
       (/\ c \notin DOMAIN customers
        /\ \/ ApiGetCustomer(c)
           \/ ApiGetWorkflowStatus(c)
           \/ \E ok \in BOOLEAN : ApiSimulateTimePassage(c, ok)
           \/ \E p \in Products, ok \in BOOLEAN : ApiProductPageVisit(c, p, ok))
       => /\ ~response'.success
          /\ response'.error = CUSTOMER_NOT_FOUND
          /\ ~GetWorkflowStatus(c)'.found
          /\ UNCHANGED <<phase, isConnected, customers, timers, pending,
                         timerSeq, queue, handlers, dispatched, emailSent,
                         fired, submitted, faults>>]_vars

\* a get-customer request for a well-formed id that the registry does not
\* hold was answered 'Customer not found' while the engine was running with
\* another customer in its registry
C20_Witness ==
  /\ phase = "running"
  /\ customers # <<>>
  /\ response.op = "customer"
  /\ response.cid \in Ids \ DOMAIN customers
  /\ response.error = CUSTOMER_NOT_FOUND

\* C21: a signup or product-visit request that fails the validation of
\* createCustomer / recordProductVisit (body or customer id) is answered
\* success: false with the validation error, and nothing else changes: no
\* event is published, the registry, the timers and the handlers are as
\* before. (Every answered request is counted, so only the steps that count
\* one have to be looked at.)
C21_InvalidRequestNeverEntersCore ==
  [][requests' # requests =>
     /\ \A body \in SignupBodies : \A c \in Ids : \A ok \in BOOLEAN :
          (/\ ~ValidateCustomerSignup(body).isValid
           /\ response'.op = "signup"
           /\ SignupRequest(body, c, ok))
          => /\ response' = Response("signup", NoId, FALSE,
                                      ValidateCustomerSignup(body).error)
             /\ response'.error # ""
             /\ UNCHANGED <<phase, isConnected, customers, timers, pending,
                            timerSeq, queue, handlers, dispatched, emailSent,
                            fired, submitted, faults>>
     /\ \A c \in RequestIds : \A body \in VisitBodies : \A ok \in BOOLEAN :
          (/\ ~ValidateCustomerId(c).isValid \/ ~ValidateProductVisit(body).isValid
           /\ response'.op = "visit"
           /\ ProductVisitRequest(c, body, ok))
          => /\ ~response'.success
             /\ response'.error = IF ~ValidateCustomerId(c).isValid
                                     THEN ValidateCustomerId(c).error
                                     ELSE ValidateProductVisit(body).error
             /\ response'.error \notin {"", CUSTOMER_NOT_FOUND}
             /\ UNCHANGED <<phase, isConnected, customers, timers, pending,
                            timerSeq, queue, handlers, dispatched, emailSent,
                            fired, submitted, faults>>]_vars

\* with a customer in the registry of the running engine, a visit request
\* for that customer without a product id was answered with the validation
\* error, and no event is in flight
C21_Witness ==
  /\ phase = "running"
  /\ response.op = "visit"
  /\ response.cid \in DOMAIN customers
  /\ response.error = "Product ID is required"
  /\ \A t \in SubscribedTopics : \A k \in Keys : queue[t][k] = <<>>

\* C22: once the signup event of a customer has been handled (the customer is
\* in the registry), with the bus connected, every dispatch succeeding and,
\* the requests being finitely many, no product visit arriving after the
\* last one, step 3 is eventually in the customer's completed set (under fair
\* scheduling of the consumer, the awaits and the timer).
C22_ReminderEventuallyCompleted ==
  \A c \in Ids :
    (c \in DOMAIN customers)
      ~> (c \in DOMAIN customers /\ IsStepCompleted(customers[c], STEP_3_REMINDER))

\* after a single signup and no other request, the first inactivity timer of
\* the customer has run out and the reminder step is completed
C22_Witness ==
  \E c \in DOMAIN customers :
    /\ requests = 1
    /\ fired = {<<c, 1>>}
    /\ customers[c].workflowState.completedSteps = <<1, 3>>

\* C23: when the engine itself consumes a workflow-step (or workflow-trigger)
\* event, no notification is dispatched and no customer's workflow state
\* changes: while the handler of such an event runs (and the process goes
\* on), the deliveries and the registry stay as they are.
C23_WorkflowStepEventIsInert ==
  [][\A h \in handlers :
       h.type = WORKFLOW_STEP /\ phase' = "running" =>
         /\ dispatched' = dispatched
         /\ emailSent' = emailSent
         /\ customers' = customers]_vars

\* C24: a workflow-step event is published for a customer and a step only
\* after the notification was dispatched successfully and the step id was
\* added to the completed set: every workflow-step event on the bus is for a
\* step that is delivered and completed.
C24_StepEventOnlyAfterCompletion ==
  \A k \in Keys :
    \A i \in 1..Len(queue[WORKFLOW_TRIGGERS][k]) :
      LET ev == queue[WORKFLOW_TRIGGERS][k][i]
      IN ev.type = WORKFLOW_STEP =>
           /\ dispatched[ev.cid][ev.stepId] >= 1
           /\ ev.cid \in DOMAIN customers
           /\ IsStepCompleted(customers[ev.cid], ev.stepId)

\* C25: every event that concerns a customer is published with that
\* customer's id as its message key: every message on the bus lies in the
\* stream of the customer it is about (and the email-sent events, on a topic
\* the engine does not read, are keyed by the customer id as well).
C25_EveryEventKeyedByCustomer ==
  /\ \A t \in SubscribedTopics : \A k \in Keys :
       \A i \in 1..Len(queue[t][k]) :
         queue[t][k][i].key = queue[t][k][i].cid /\ k = queue[t][k][i].cid
  /\ \A c \in Ids : MessageKey("EMAIL_SENT", c) = c

\* the handler of a product-visit event of the known customer c returns in
\* the step: after its awaited dispatch, or at once when the dispatch is
\* skipped (step 2 already completed)
VisitHandlerReturns(c) ==
  \/ /\ \E h \in handlers : h.cid = c /\ h.type = PRODUCT_PAGE_VISIT
     /\ handlers' = {}
     /\ phase' = "running"
  \/ /\ c \in DOMAIN customers
     /\ handlers' = handlers
     /\ \E commit \in BOOLEAN : HandleProductPageVisit(c, commit)

\* C26: after every product-visit event handled for a known customer, a
\* fresh inactivity timer is pending for that customer (a new timeout, the
\* one in the timer table, and the only one pending), whether or not step 2
\* or step 3 was already completed and whether or not the dispatch succeeded.
C26_FreshTimerAfterVisit ==
  [][\A c \in Ids :
       VisitHandlerReturns(c) =>
         /\ timerSeq'[c] = timerSeq[c] + 1
         /\ c \in DOMAIN timers' /\ timers'[c] = timerSeq'[c]
         /\ {t \in pending' : t[1] = c} = {<<c, timerSeq'[c]>>}]_vars

\* a visit was handled whose discount dispatch failed (the workflow-step
\* publish was rejected: nothing delivered, step 2 not completed), and the
\* timer armed after it is pending
C26_Witness ==
  \E c \in DOMAIN customers :
    /\ customers[c].lastProductVisit # NoVisit
    /\ ~IsStepCompleted(customers[c], STEP_2_DISCOUNT)
    /\ dispatched[c][STEP_2_DISCOUNT] = 0
    /\ handlers = {}
    /\ NoEventInFlight(c)
    /\ <<c, 2>> \in pending

\* C27: in every reachable state and for every customer in the registry, the
\* three flags agree with the completed set: welcomeEmailSent is true iff 1
\* is in completedSteps, discountCodeSent iff 2 is, reminderSent iff 3 is.
C27_FlagsAgreeWithCompletedSteps ==
  \A c \in DOMAIN customers :
    LET ws == customers[c].workflowState
    IN /\ ws.welcomeEmailSent <=> IsStepCompleted(customers[c], STEP_1_WELCOME)
       /\ ws.discountCodeSent <=> IsStepCompleted(customers[c], STEP_2_DISCOUNT)
       /\ ws.reminderSent <=> IsStepCompleted(customers[c], STEP_3_REMINDER)

\* a customer with the welcome and the reminder step completed and the
\* discount step not: two flags set, one not
C27_Witness ==
  \E c \in DOMAIN customers :
    /\ customers[c].workflowState.completedSteps = <<1, 3>>
    /\ customers[c].workflowState.welcomeEmailSent
    /\ ~customers[c].workflowState.discountCodeSent
    /\ customers[c].workflowState.reminderSent

\* step s is in the completed set of customer c
Completed(c, s) == c \in DOMAIN customers /\ IsStepCompleted(customers[c], s)

\* C28: a step id enters a customer's completed set only after an email-sent
\* event for that customer and that step's notification has been published
\* successfully: it enters in the step in which that publish returns, and
\* every completed step has an email-sent event.
C28_CompletedOnlyAfterEmailSent ==
  /\ [](\A c \in Ids : \A s \in StepIds : Completed(c, s) => emailSent[c][s] >= 1)
  /\ [][\A c \in Ids : \A s \in StepIds :
          ~Completed(c, s) /\ Completed(c, s)' =>
            emailSent'[c][s] = emailSent[c][s] + 1]_vars

\* the welcome email was delivered but its email-sent publish was rejected:
\* step 1 is not completed, while step 2, whose email-sent event was
\* published, is
C28_Witness ==
  \E c \in DOMAIN customers :
    /\ customers[c].workflowState.completedSteps = <<STEP_2_DISCOUNT>>
    /\ dispatched[c][STEP_1_WELCOME] = 1
    /\ emailSent[c][STEP_1_WELCOME] = 0
    /\ emailSent[c][STEP_2_DISCOUNT] >= 1
    /\ handlers = {}

\* C29: a customer id is present in the registry only if a signup event for
\* that id has been handled: an id enters the registry only in the handling
\* of a signup event for it, and handling a product-visit, customer-inactive
\* or workflow-step event for an id that is not in the registry adds no entry.
C29_RegistryEntryOnlyBySignup ==
  [][\A c \in Ids :
       c \notin DOMAIN customers /\ c \in DOMAIN customers' =>
         \E commit \in BOOLEAN : HandleCustomerSignup(c, commit)]_vars

\* a product-visit event for customer c is published in the step
VisitPublished(c) ==
  /\ Len(queue'[CUSTOMER_EVENTS][c]) = Len(queue[CUSTOMER_EVENTS][c]) + 1
  /\ queue'[CUSTOMER_EVENTS][c][Len(queue'[CUSTOMER_EVENTS][c])].type
       = PRODUCT_PAGE_VISIT

\* C30: recordProductVisit publishes a product-visit event only if the
\* customer id is in the registry at the time of the call; for an id that is
\* not (yet) there, a customer whose signup event is published but not yet
\* handled included, it answers 'Customer not found' and publishes nothing.
C30_VisitOnlyForRegisteredCustomer ==
  [][\A c \in Ids :
       /\ VisitPublished(c) => c \in DOMAIN customers
       /\ (/\ c \notin DOMAIN customers
           /\ response'.op = "visit"
           /\ \E p \in Products, ok \in BOOLEAN : ApiProductPageVisit(c, p, ok))
          => /\ response' = Response("visit", c, FALSE, CUSTOMER_NOT_FOUND)
             /\ queue' = queue]_vars

\* a visit request for a customer whose signup event is published and still
\* waits to be handled was answered 'Customer not found', and no visit event
\* is on the bus
C30_Witness ==
  /\ phase = "running"
  /\ response = Response("visit", response.cid, FALSE, CUSTOMER_NOT_FOUND)
  /\ response.cid \in submitted \ DOMAIN customers
  /\ queue[CUSTOMER_EVENTS][MessageKey(CUSTOMER_SIGNUP, response.cid)] # <<>>
  /\ \A c \in Ids : queue[CUSTOMER_EVENTS][c] = <<>>

\* an inactivity timer of customer c is armed: set, not fired, not cleared
TimerArmed(c) == \E t \in pending : t[1] = c

\* C31: in every state, the hasActiveReminder that the workflow status
\* reports for a customer is true exactly when an inactivity timer of that
\* customer is armed and has neither fired nor been cancelled.
C31_ActiveReminderIffTimerArmed ==
  \A c \in DOMAIN customers :
    GetWorkflowStatus(c).hasActiveReminder <=> TimerArmed(c)

\* C32: simulateTimePassage(id) for a customer without an entry in the timer
\* table, or for an id the registry does not know, publishes no event and
\* leaves the registry and the timer table unchanged.
C32_SimulateWithoutTimerChangesNothing ==
  [][\A c \in Ids :
       (/\ c \notin DOMAIN customers \/ c \notin DOMAIN timers
        /\ response'.op = "simulate-time"
        /\ \E ok \in BOOLEAN : ApiSimulateTimePassage(c, ok))
       => /\ queue' = queue
          /\ customers' = customers
          /\ timers' = timers
          /\ pending' = pending]_vars

\* a simulate-time request was answered for a customer that is in the
\* registry and for whom no timer has been set yet (the handler of the signup
\* is still in its welcome step), and nothing is on the bus but the
\* workflow-step event of that step
C32_Witness ==
  /\ response.op = "simulate-time"
  /\ response.success
  /\ response.cid \in DOMAIN customers
  /\ response.cid \notin DOMAIN timers
  /\ timerSeq[response.cid] = 0
  /\ \A k \in Keys : queue[CUSTOMER_EVENTS][k] = <<>>

\* the step handles an event, a timer fire, a resumed handler or an API call
\* that names customer a
StepNames(a) ==
  \/ \E ok \in BOOLEAN : CreateCustomer(a, ok)
  \/ \E p \in Products, ok \in BOOLEAN : RecordProductVisit(a, p, ok)
  \/ \E ok \in BOOLEAN : SimulateTimePassage(a, ok)
  \/ \E commit \in BOOLEAN :
       \/ HandleCustomerSignup(a, commit)
       \/ HandleProductPageVisit(a, commit)
       \/ HandleCustomerInactive(a, commit)
       \/ HandleWorkflowStep(a, commit)
  \/ \E h \in handlers, ok \in BOOLEAN :
       /\ h.cid = a
       /\ StepPublishReturn(h, ok) \/ DeliveryDone(h) \/ EmailSentReturn(h, ok)
  \/ \E t \in pending, ok \in BOOLEAN : t[1] = a /\ TimerFire(a, t[2], ok)

\* the registry entry and the timer of customer b are what they were
EntryUnchanged(b) ==
  /\ (b \in DOMAIN customers') = (b \in DOMAIN customers)
  /\ b \in DOMAIN customers => customers'[b] = customers[b]
  /\ (b \in DOMAIN timers') = (b \in DOMAIN timers)
  /\ b \in DOMAIN timers => timers'[b] = timers[b]
  /\ {t \in pending' : t[1] = b} = {t \in pending : t[1] = b}

\* C33: handling an event, a timer fire or an API call that names customer A
\* leaves the registry entry (workflow state, metadata, last activity) and the
\* timer of every other customer B unchanged, as long as the process lives.
C33_OtherCustomersUntouched ==
  [][phase' # "stopped" =>
       \A a \in Ids : StepNames(a) => \A b \in Ids \ {a} : EntryUnchanged(b)]_vars

\* two customers side by side: the first has its welcome step completed and
\* its timer armed, the second has had a visit handled since
C33_Witness ==
  /\ DOMAIN customers = Ids
  /\ IsStepCompleted(customers[IdSeq[1]], STEP_1_WELCOME)
  /\ IdSeq[1] \in DOMAIN timers
  /\ <<IdSeq[1], timers[IdSeq[1]]>> \in pending
  /\ customers[IdSeq[2]].lastActivity = "visit"
  /\ IdSeq[2] \in DOMAIN timers
  /\ customers[IdSeq[1]].lastActivity = "signup"

\* customer c has a timer set in the step: a new handle, in the table and armed
FreshTimer(c) ==
  /\ c \in DOMAIN timers'
  /\ timers'[c] = timerSeq[c] + 1
  /\ {t \in pending' : t[1] = c} = {<<c, timers'[c]>>}

\* C34: if publishing the workflow-step event fails inside
\* triggerWorkflowStep, the notification of the step is not dispatched and the
\* step stays not completed, the error is swallowed (the handler ends, the
\* process goes on), and the calling signup or visit handler still does its
\* timer bookkeeping: the inactivity timer is armed, or armed anew.
C34_FailedStepPublishKeepsBookkeeping ==
  [][\A h \in handlers :
       (h.pc = AwaitStepPublish /\ faults' = faults + 1
          /\ StepPublishReturn(h, FALSE))
       => /\ dispatched' = dispatched
          /\ emailSent' = emailSent
          /\ customers' = customers
          /\ queue' = queue
          /\ handlers' = {}
          /\ phase' = phase
          /\ h.type \in {CUSTOMER_SIGNUP, PRODUCT_PAGE_VISIT} => FreshTimer(h.cid)
          /\ h.type = CUSTOMER_INACTIVE =>
               UNCHANGED <<timers, pending, timerSeq>>]_vars

\* the publish of the welcome step's event has failed for a signup: the customer
\* is in the registry with no step completed, nothing was dispatched, nothing
\* is on the workflow topic, the handler has ended and the timer is armed
C34_Witness ==
  \E c \in DOMAIN customers :
    /\ phase = "running"
    /\ handlers = {}
    /\ customers[c].workflowState.completedSteps = <<>>
    /\ \A s \in StepIds : dispatched[c][s] = 0
    /\ queue[WORKFLOW_TRIGGERS][c] = <<>>
    /\ c \in DOMAIN timers
    /\ <<c, timers[c]>> \in pending
    /\ faults >= 1

\* another step of customer c than s completes in the step
LaterStepCompletes(c, s) ==
  \E s2 \in StepIds \ {s} :
    /\ ~GetWorkflowStatus(c).steps[s2].completed
    /\ GetWorkflowStatus(c)'.steps[s2].completed

\* C35: in the workflow status an incomplete step reports completedAt = null
\* (0 here), and once a step is completed the completedAt reported for it
\* does not change when later steps of the same customer complete.
C35_CompletedAtIsStable ==
  /\ [](\A c \in DOMAIN customers, s \in StepIds :
          ~GetWorkflowStatus(c).steps[s].completed
            => GetWorkflowStatus(c).steps[s].completedAt = 0)
  /\ [][\A c \in DOMAIN customers, s \in StepIds :
          (/\ GetWorkflowStatus(c).steps[s].completed
           /\ c \in DOMAIN customers'
           /\ LaterStepCompletes(c, s))
          => GetWorkflowStatus(c)'.steps[s].completedAt
               = GetWorkflowStatus(c).steps[s].completedAt]_vars

\* the errors the validators of the boundary return: customer-id format,
\* signup fields, product-visit fields
ValidationErrors ==
  {ValidateCustomerId(c).error : c \in {x \in RequestIds : ~ValidateCustomerId(x).isValid}}
  \cup {ValidateCustomerSignup(b).error :
          b \in {x \in SignupBodies : ~ValidateCustomerSignup(x).isValid}}
  \cup {ValidateProductVisit(b).error :
          b \in {x \in VisitBodies : ~ValidateProductVisit(x).isValid}}

\* the errors of the catch blocks of createCustomer and recordProductVisit
InternalErrors ==
  {"Internal server error during signup",
   "Internal server error during product visit recording"}

\* C36: for every failure result the service layer returns, the HTTP status
\* is 404 when the error is 'Customer not found', 400 for every boundary
\* validation error (customer-id format, signup fields, product-visit
\* fields), and 500 only for internal errors.
C36_StatusCodeByErrorKind ==
  (response # NoResponse /\ ~response.success) =>
    /\ response.error = CUSTOMER_NOT_FOUND => StatusCode(response) = 404
    /\ response.error \in ValidationErrors => StatusCode(response) = 400
    /\ StatusCode(response) = 500 => response.error \in InternalErrors

====
